---- MODULE Spec2Model ----
(***************************************************************************)
(* HomeApp: the name-claiming protocol of HomePages (groups).              *)
(*                                                                         *)
(* Several devices run the app against one shared document store with two *)
(* collections: homepages (group id -> {name, nameKey}) and                *)
(* homepagesByName (key -> {homePageId}).  Each device has its own         *)
(* AsyncStorage (the session), its own route and its own HomeTab state.    *)
(*                                                                         *)
(* runTransaction is the store's optimistic transaction: the update        *)
(* function reads through tx.get, buffers its writes, and the commit is    *)
(* applied atomically only if no document it read was written since; if    *)
(* one was, the update function is run again.  tx.get refuses to read once *)
(* the transaction has buffered a write.                                   *)
(***************************************************************************)
EXTENDS Integers, Sequences, FiniteSets, TLC

\* ------------------------------------------------------------------ bounds
\* calls started and tabs opened in one run
MaxOps == 3
\* identifiers the store hands out
MaxIds == 2
\* shopping items, and messages, one HomePage gets
MaxDocs == 2

\* program constant: .slice(0, 40)
KeyMax == 40

\* program constant: maxLength={40} of the rename input
NameMax == 40

\* program constants: clamp(nickname.trim(), 40), clamp(text.trim(), 500)
NickMax == 40
BodyMax == 500

\* Two devices run the app; the races of the protocol are between the
\* transactions of two devices.
Dev == {"d1", "d2"}
Ids == 1..MaxIds
NoId == 0
NoKey == <<>>

\* ------------------------------------------------------------ toNameKey
WhiteSpace == {" "}
KeyChars == {"a", "b", "1", "-"}

ToLower(c) ==
    CASE c = "A" -> "a"
      [] c = "B" -> "b"
      [] OTHER -> c

RECURSIVE TrimLeft(_)
TrimLeft(s) ==
    IF s # <<>> /\ Head(s) \in WhiteSpace THEN TrimLeft(Tail(s)) ELSE s

RECURSIVE TrimRight(_)
TrimRight(s) ==
    IF s # <<>> /\ s[Len(s)] \in WhiteSpace
    THEN TrimRight(SubSeq(s, 1, Len(s) - 1))
    ELSE s

\* String.prototype.trim
Trim(s) == TrimRight(TrimLeft(s))

\* String.prototype.toLowerCase
LowerCase(s) == [i \in 1..Len(s) |-> ToLower(s[i])]

\* .replace(/\s+/g, "-")
RECURSIVE SpacesToDash(_)
SpacesToDash(s) ==
    IF s = <<>> THEN <<>>
    ELSE IF Head(s) \in WhiteSpace
         THEN <<"-">> \o SpacesToDash(TrimLeft(s))
         ELSE <<Head(s)>> \o SpacesToDash(Tail(s))

\* .replace(/[^a-z0-9-]/g, "")
StripInvalid(s) == SelectSeq(s, LAMBDA c : c \in KeyChars)

\* .replace(/-+/g, "-")
RECURSIVE CollapseDashes(_)
CollapseDashes(s) ==
    IF Len(s) < 2 THEN s
    ELSE IF s[1] = "-" /\ s[2] = "-"
         THEN CollapseDashes(Tail(s))
         ELSE <<s[1]>> \o CollapseDashes(Tail(s))

\* .replace(/^-|-$/g, ""): one hyphen at the start, one at the end
TrimDash(s) ==
    LET a == IF s # <<>> /\ Head(s) = "-" THEN Tail(s) ELSE s
    IN  IF a # <<>> /\ a[Len(a)] = "-" THEN SubSeq(a, 1, Len(a) - 1) ELSE a

\* .slice(0, 40)
Slice(s, n) == IF Len(s) <= n THEN s ELSE SubSeq(s, 1, n)

toNameKey(s) ==
    Slice(TrimDash(CollapseDashes(StripInvalid(SpacesToDash(LowerCase(Trim(s)))))),
          KeyMax)

\* What the user may type into the create / join / rename inputs.
Inputs == { <<"A">>, <<" ", "a">>, <<"b">>, <<"-">> }
Keys == { toNameKey(s) : s \in Inputs } \ {NoKey}

\* -------------------------------------------------------------- state
VARIABLES
    groups,     \* homepages/{id}: the Group Registry
    claims,     \* homepagesByName/{key}.homePageId: the Claim Table
    nextId,     \* the next identifier doc(collection(db, "homepages")) hands out
    storage,    \* AsyncStorage[STORAGE_KEY] of each device (the Session)
    screen,     \* the route each device shows
    hpId,       \* HomeTab state homePageId
    hpKey,      \* HomeTab state homePageKey
    tx,         \* the create / join / rename call in flight on each device
    last,       \* the outcome of the last call that ended on each device
    ops,        \* how many calls were started and tabs opened
    items,      \* homepages/{id}/shoppingItems, in the order of their creation
    msgs,       \* homepages/{id}/messages, in the order of their creation
    nick,       \* AsyncStorage[NICK_KEY] of each device
    view,       \* the items and messages lists each device's tabs show
    gone        \* a snapshot without the HomePage reached the device's guards,
                \* whose callbacks have not run yet

\* the state of the Shopping and Messages tabs and of the guards
tabVars == <<items, msgs, nick, view, gone>>

vars == <<groups, claims, nextId, storage, screen, hpId, hpKey, tx, last, ops,
          items, msgs, nick, view, gone>>

NoDoc == [exists |-> FALSE, name |-> <<>>, nameKey |-> NoKey]
Doc(n, k) == [exists |-> TRUE, name |-> n, nameKey |-> k]

Idle == [pc |-> "idle", op |-> "none", input |-> <<>>, name |-> <<>>, key |-> NoKey,
         gid |-> NoId, old |-> NoKey, del |-> FALSE, docs |-> {},
         rival |-> FALSE, lost |-> FALSE, stale |-> FALSE]

NoResult == [op |-> "none", res |-> "none", name |-> <<>>, key |-> NoKey, gid |-> NoId,
             rival |-> FALSE, lost |-> FALSE]

\* the tabs' lists before their first snapshot
NoView == [items |-> <<>>, msgs |-> <<>>]

\* no shopping item, no message, no nickname
TabInit ==
    /\ items = [g \in Ids |-> <<>>]
    /\ msgs = [g \in Ids |-> <<>>]
    /\ nick = [d \in Dev |-> <<>>]
    /\ view = [d \in Dev |-> NoView]
    /\ gone = [d \in Dev |-> FALSE]

Outcome(t, r, g) == [op |-> t.op, res |-> r, name |-> t.name, key |-> t.key, gid |-> g,
                     rival |-> t.rival, lost |-> t.lost]

\* The app starts on every device at the Index screen, in its loading state.
\* The store is empty, or holds a HomePage made in an earlier run of the app
\* (createByName("A")), whose id some devices still have in their AsyncStorage.
SeedName == <<"A">>

Init ==
    /\ \E seeded \in BOOLEAN :
         /\ groups = [g \in Ids |-> IF seeded /\ g = 1
                                     THEN Doc(Trim(SeedName), toNameKey(Trim(SeedName)))
                                     ELSE NoDoc]
         /\ claims = [k \in Keys |-> IF seeded /\ k = toNameKey(Trim(SeedName))
                                      THEN 1 ELSE NoId]
         /\ nextId = IF seeded THEN 2 ELSE 1
         /\ storage \in [Dev -> IF seeded THEN {NoId, 1} ELSE {NoId}]
    /\ screen = [d \in Dev |-> "loading"]
    /\ hpId = [d \in Dev |-> NoId]
    /\ hpKey = [d \in Dev |-> NoKey]
    /\ tx = [d \in Dev |-> Idle]
    /\ last = [d \in Dev |-> NoResult]
    /\ ops = 0
    /\ TabInit

\* ------------------------------------------------- the store's transactions
\* Transaction.get: the store rejects a read issued after the transaction has
\* buffered a write ("all reads must be executed before all writes").
TxGetRejected(writesPending) == writesPending

\* The claim documents a transaction has read when it reaches its commit.
ReadSet(t) ==
    {t.key} \cup (IF t.old # NoKey /\ t.old # t.key THEN {t.old} ELSE {})

\* Invalidate without the commit-time check of the reads: no transaction is
\* ever re-run.
InvalidateBlind(t, written, k, g) ==
    IF t.op \in {"create", "rename"} /\ t.pc \in {"get", "commit"}
    THEN [t EXCEPT !.rival = @ \/ (t.key = k),
                   !.lost = @ \/ (t.key = k /\ (t.op = "create" \/ t.gid # g))]
    ELSE t

\* A commit that writes claim documents invalidates the reads of every other
\* transaction that read one of them and has not committed.  rival and lost
\* record that a concurrent transaction claimed key k, the key this one is
\* after (lost: for another group than the one this transaction acts for).
Invalidate(t, written, k, g) ==
    IF t.op \in {"create", "rename"} /\ t.pc \in {"get", "commit"}
    THEN [t EXCEPT !.stale = @ \/ (t.pc = "commit" /\ ReadSet(t) \cap written # {}),
                   !.rival = @ \/ (t.key = k),
                   !.lost = @ \/ (t.key = k /\ (t.op = "create" \/ t.gid # g))]
    ELSE t

Committed(d, written, k, g, mine) ==
    [e \in Dev |-> IF e = d THEN mine ELSE Invalidate(tx[e], written, k, g)]

Finish(d, r, g) ==
    /\ tx' = [tx EXCEPT ![d] = Idle]
    /\ last' = [last EXCEPT ![d] = Outcome(tx[d], r, g)]

\* router.replace("/(home)/home"): HomeTab mounts with fresh state and its first
\* effect loads the saved HomePage id (no saved id: back to onboarding)
EnterHome(d, saved) ==
    /\ screen' = [screen EXCEPT ![d] = IF saved = NoId THEN "loading" ELSE "home"]
    /\ hpId' = [hpId EXCEPT ![d] = saved]
    /\ hpKey' = [hpKey EXCEPT ![d] = NoKey]

\* ------------------------------------------------------------- Index screen
\* Boot effect: a saved id whose HomePage exists routes into the tabs, a stale
\* one is removed, and the forms are shown.
IndexBoot(d) ==
    /\ screen[d] = "loading"
    /\ IF storage[d] # NoId /\ groups[storage[d]].exists
       THEN /\ EnterHome(d, storage[d])
            /\ UNCHANGED storage
       ELSE /\ screen' = [screen EXCEPT ![d] = "index"]
            /\ storage' = [storage EXCEPT ![d] = NoId]
            /\ UNCHANGED <<hpId, hpKey>>
    /\ UNCHANGED <<groups, claims, nextId, tx, last, ops>>
    /\ UNCHANGED tabVars

\* Boot effect when getDoc rejects: the effect ends in an unhandled rejection
\* before setLoading(false), and the screen keeps its loading render.
BootFails(d) ==
    /\ screen[d] = "loading"
    /\ storage[d] # NoId
    /\ screen' = [screen EXCEPT ![d] = "hung"]
    /\ UNCHANGED <<groups, claims, nextId, storage, hpId, hpKey, tx, last, ops>>
    /\ UNCHANGED tabVars

\* a restart that comes up with an empty AsyncStorage
RestartWipes(d) ==
    /\ ops < MaxOps
    /\ ops' = ops + 1
    /\ screen' = [screen EXCEPT ![d] = "loading"]
    /\ hpId' = [hpId EXCEPT ![d] = NoId]
    /\ hpKey' = [hpKey EXCEPT ![d] = NoKey]
    /\ tx' = [tx EXCEPT ![d] = Idle]
    /\ last' = [last EXCEPT ![d] = Outcome([Idle EXCEPT !.op = "restart"], "OK", NoId)]
    /\ view' = [view EXCEPT ![d] = NoView]
    /\ gone' = [gone EXCEPT ![d] = FALSE]
    /\ storage' = [storage EXCEPT ![d] = NoId]
    /\ nick' = [nick EXCEPT ![d] = <<>>]
    /\ UNCHANGED <<groups, claims, nextId, items, msgs>>

\* The app's process is killed and started again: every component state is
\* lost, AsyncStorage is kept, and the Index screen mounts in its loading state.
Restart(d) ==
    /\ ops < MaxOps
    /\ ops' = ops + 1
    /\ screen' = [screen EXCEPT ![d] = "loading"]
    /\ hpId' = [hpId EXCEPT ![d] = NoId]
    /\ hpKey' = [hpKey EXCEPT ![d] = NoKey]
    /\ tx' = [tx EXCEPT ![d] = Idle]
    /\ last' = [last EXCEPT ![d] = Outcome([Idle EXCEPT !.op = "restart"], "OK", NoId)]
    /\ view' = [view EXCEPT ![d] = NoView]
    /\ gone' = [gone EXCEPT ![d] = FALSE]
    /\ UNCHANGED <<groups, claims, nextId, storage, items, msgs, nick>>

\* a handler without its InvalidName check
NeverInvalid(name, key) == FALSE

\* !name || !key (joinByName: !key, its name is the untrimmed input)
InvalidName(name, key) == name = <<>> \/ key = NoKey

\* createByName up to the start of the transaction
CreateStart(d, text) ==
    /\ screen[d] = "index"
    /\ tx[d].pc = "idle"
    /\ ops < MaxOps
    /\ ops' = ops + 1
    /\ LET name == Trim(text)
           key == toNameKey(name)
           call == [Idle EXCEPT !.op = "create", !.input = text, !.name = name, !.key = key]
       IN  IF InvalidName(name, key)
           THEN /\ tx' = tx
                /\ last' = [last EXCEPT ![d] = Outcome(call, "InvalidName", NoId)]
           ELSE /\ nextId + Cardinality({e \in Dev : tx[e].op = "create"}) <= MaxIds
                /\ tx' = [tx EXCEPT ![d] = [call EXCEPT !.pc = "get"]]
                /\ last' = [last EXCEPT ![d] = NoResult]
    /\ UNCHANGED <<groups, claims, nextId, storage, screen, hpId, hpKey>>
    /\ UNCHANGED tabVars

\* createByName without its NameTaken check
CreateTakenNever(mapped) == FALSE

\* mapSnap.exists()
CreateTaken(mapped) == mapped # NoId

\* the update function of createByName: tx.get(mapRef), then the two tx.set
CreateGet(d) ==
    /\ tx[d].op = "create"
    /\ tx[d].pc = "get"
    /\ IF CreateTaken(claims[tx[d].key])
       THEN Finish(d, "NameTaken", NoId)
       ELSE /\ tx' = [tx EXCEPT ![d].pc = "commit", ![d].stale = FALSE]
            /\ UNCHANGED last
    /\ UNCHANGED <<groups, claims, nextId, storage, screen, hpId, hpKey, ops>>
    /\ UNCHANGED tabVars

\* tx.set(hpRef, {createdAt, name, nameKey: key})
CreateGroups(grp, id, name, key) == [grp EXCEPT ![id] = Doc(name, key)]

\* tx.set(mapRef, {homePageId: hpRef.id}, {merge: true})
CreateClaims(cl, key, id) == [cl EXCEPT ![key] = id]

\* the identifier handed out last is handed out again
NewIdReused == IF nextId > 1 THEN nextId - 1 ELSE nextId

\* doc(collection(db, "homepages")): an identifier no document has had
NewId == nextId

\* a handler that never persists the id
SaveSessionNever(st, d, id) == st

\* AsyncStorage.setItem(STORAGE_KEY, id)
SaveSession(st, d, id) == [st EXCEPT ![d] = id]

\* the commit of createByName's transaction, or its re-run on a conflict; after
\* the commit the id is saved and the device routes to the home screen
CreateCommit(d) ==
    /\ tx[d].op = "create"
    /\ tx[d].pc = "commit"
    /\ IF tx[d].stale
       THEN /\ tx' = [tx EXCEPT ![d].pc = "get", ![d].stale = FALSE]
            /\ UNCHANGED <<groups, claims, nextId, storage, screen, hpId, hpKey, last>>
       ELSE /\ groups' = CreateGroups(groups, NewId, tx[d].name, tx[d].key)
            /\ claims' = CreateClaims(claims, tx[d].key, NewId)
            /\ nextId' = nextId + 1
            /\ tx' = Committed(d, {tx[d].key}, tx[d].key, NewId, Idle)
            /\ last' = [last EXCEPT ![d] = Outcome(tx[d], "OK", NewId)]
            /\ storage' = SaveSession(storage, d, NewId)
            /\ EnterHome(d, storage'[d])
    /\ UNCHANGED ops
    /\ UNCHANGED tabVars

\* joinByName up to the lookup
JoinStart(d, text) ==
    /\ screen[d] = "index"
    /\ tx[d].pc = "idle"
    /\ ops < MaxOps
    /\ ops' = ops + 1
    /\ LET key == toNameKey(text)
           call == [Idle EXCEPT !.op = "join", !.input = text, !.key = key]
       IN  IF InvalidName(text, key)
           THEN /\ tx' = tx
                /\ last' = [last EXCEPT ![d] = Outcome(call, "InvalidName", NoId)]
           ELSE /\ tx' = [tx EXCEPT ![d] = [call EXCEPT !.pc = "get"]]
                /\ last' = [last EXCEPT ![d] = NoResult]
    /\ UNCHANGED <<groups, claims, nextId, storage, screen, hpId, hpKey>>
    /\ UNCHANGED tabVars

\* getDoc(doc(db, "homepagesByName", key)): the homePageId of the claim, or
\* NoId when !mapSnap.exists()
Lookup(cl, key) == IF key \in DOMAIN cl THEN cl[key] ELSE NoId

\* the lookup of joinByName, then the id is saved and the device routes to the
\* home screen
JoinGet(d) ==
    /\ tx[d].op = "join"
    /\ tx[d].pc = "get"
    /\ IF Lookup(claims, tx[d].key) = NoId
       THEN /\ Finish(d, "NotFound", NoId)
            /\ UNCHANGED <<storage, screen, hpId, hpKey>>
       ELSE /\ storage' = SaveSession(storage, d, Lookup(claims, tx[d].key))
            /\ EnterHome(d, storage'[d])
            /\ Finish(d, "OK", Lookup(claims, tx[d].key))
    /\ UNCHANGED <<groups, claims, nextId, ops>>
    /\ UNCHANGED tabVars

\* the catch blocks: the transaction or the lookup could not complete
\* a catch block that also forgets the saved id
BackendFailsAndClears(d) ==
    /\ tx[d].pc \in {"get", "commit"}
    /\ Finish(d, "BackendUnavailable", NoId)
    /\ storage' = [storage EXCEPT ![d] = NoId]
    /\ UNCHANGED <<groups, claims, nextId, screen, hpId, hpKey, ops>>
    /\ UNCHANGED tabVars

BackendFails(d) ==
    /\ tx[d].pc \in {"get", "commit"}
    /\ Finish(d, "BackendUnavailable", NoId)
    /\ UNCHANGED <<groups, claims, nextId, storage, screen, hpId, hpKey, ops>>
    /\ UNCHANGED tabVars

\* ---------------------------------------------------------------- HomeTab
\* the screens of the tab navigator; each has the existence guard
Tabs == {"home", "shopping", "messages"}

\* onSnapshot(hpRef): the existence guard, else the copy of name and nameKey
Snapshot(d) ==
    /\ screen[d] \in Tabs
    /\ hpId[d] # NoId
    /\ ~gone[d]
    /\ IF ~groups[hpId[d]].exists
       THEN /\ gone' = [gone EXCEPT ![d] = TRUE]
            /\ UNCHANGED hpKey
       ELSE /\ hpKey' = [hpKey EXCEPT ![d] = groups[hpId[d]].nameKey]
            /\ hpKey'[d] # hpKey[d]
            /\ UNCHANGED gone
    /\ UNCHANGED <<groups, claims, nextId, storage, screen, hpId, tx, last, ops>>
    /\ UNCHANGED <<items, msgs, nick, view>>

\* the guard's callback for a snapshot without the HomePage: removeItem, then
\* router.replace("/"), which unmounts the tabs
Guard(d) ==
    /\ gone[d]
    /\ storage' = [storage EXCEPT ![d] = NoId]
    /\ screen' = [screen EXCEPT ![d] = "loading"]
    /\ hpId' = [hpId EXCEPT ![d] = NoId]
    /\ hpKey' = [hpKey EXCEPT ![d] = NoKey]
    /\ view' = [view EXCEPT ![d] = NoView]
    /\ gone' = [gone EXCEPT ![d] = FALSE]
    /\ UNCHANGED <<groups, claims, nextId, tx, last, ops>>
    /\ UNCHANGED <<items, msgs, nick>>

\* a Switch that also gives up the name of the HomePage it leaves
switchAndRelease(d) ==
    /\ screen[d] = "home"
    /\ hpId[d] # NoId
    /\ storage' = [storage EXCEPT ![d] = NoId]
    /\ hpId' = [hpId EXCEPT ![d] = NoId]
    /\ hpKey' = [hpKey EXCEPT ![d] = NoKey]
    /\ screen' = [screen EXCEPT ![d] = "loading"]
    /\ view' = [view EXCEPT ![d] = NoView]
    /\ gone' = [gone EXCEPT ![d] = FALSE]
    /\ claims' = [k \in DOMAIN claims |-> IF claims[k] = hpId[d] THEN NoId ELSE claims[k]]
    /\ UNCHANGED <<groups, nextId, tx, last, ops>>
    /\ UNCHANGED <<items, msgs, nick>>

\* a Switch that also removes the nickname
switchAndForget(d) ==
    /\ screen[d] = "home"
    /\ hpId[d] # NoId
    /\ storage' = [storage EXCEPT ![d] = NoId]
    /\ hpId' = [hpId EXCEPT ![d] = NoId]
    /\ hpKey' = [hpKey EXCEPT ![d] = NoKey]
    /\ screen' = [screen EXCEPT ![d] = "loading"]
    /\ view' = [view EXCEPT ![d] = NoView]
    /\ gone' = [gone EXCEPT ![d] = FALSE]
    /\ nick' = [nick EXCEPT ![d] = <<>>]
    /\ UNCHANGED <<groups, claims, nextId, tx, last, ops>>
    /\ UNCHANGED <<items, msgs>>

switchHomePage(d) ==
    /\ screen[d] = "home"
    /\ hpId[d] # NoId
    /\ storage' = [storage EXCEPT ![d] = NoId]
    /\ hpId' = [hpId EXCEPT ![d] = NoId]
    /\ hpKey' = [hpKey EXCEPT ![d] = NoKey]
    /\ screen' = [screen EXCEPT ![d] = "loading"]
    /\ view' = [view EXCEPT ![d] = NoView]
    /\ gone' = [gone EXCEPT ![d] = FALSE]
    /\ UNCHANGED <<groups, claims, nextId, tx, last, ops>>
    /\ UNCHANGED <<items, msgs, nick>>

\* saveRename up to the start of the transaction; the update function closes
\* over the homePageId and homePageKey the component holds at the call
RenameStart(d, text) ==
    /\ screen[d] = "home"
    /\ hpId[d] # NoId
    /\ tx[d].pc = "idle"
    /\ ops < MaxOps
    /\ ops' = ops + 1
    /\ LET name == Trim(text)
           newKey == toNameKey(name)
           call == [Idle EXCEPT !.op = "rename", !.input = text, !.name = name, !.key = newKey,
                                !.gid = hpId[d], !.old = hpKey[d]]
       IN  IF InvalidName(name, newKey)
           THEN /\ tx' = tx
                /\ last' = [last EXCEPT ![d] = Outcome(call, "InvalidName", NoId)]
           ELSE /\ tx' = [tx EXCEPT ![d] = [call EXCEPT !.pc = "get"]]
                /\ last' = [last EXCEPT ![d] = NoResult]
    /\ UNCHANGED <<groups, claims, nextId, storage, screen, hpId, hpKey>>
    /\ UNCHANGED tabVars

\* saveRename without its NameTaken check
RenameTakenNever(mapped, gid) == FALSE

\* newKeySnap.exists() && mapped.homePageId !== homePageId
RenameTaken(mapped, gid) == mapped # NoId /\ mapped # gid

\* oldKeyRef && homePageKey && homePageKey !== newKey
ReadsOld(old, newKey) == old # NoKey /\ old # newKey

\* the update function of saveRename: tx.get(newKeyRef), the two tx.set, then
\* the tx.get(oldKeyRef) that follows them
RenameGet(d) ==
    /\ tx[d].op = "rename"
    /\ tx[d].pc = "get"
    /\ IF RenameTaken(claims[tx[d].key], tx[d].gid)
       THEN Finish(d, "NameTaken", NoId)
       ELSE IF ReadsOld(tx[d].old, tx[d].key) /\ TxGetRejected(TRUE)
            THEN Finish(d, "ReadAfterWrite", NoId)
            ELSE /\ tx' = [tx EXCEPT ![d].pc = "commit", ![d].stale = FALSE,
                                     ![d].del = /\ ReadsOld(tx[d].old, tx[d].key)
                                                /\ claims[tx[d].old] = tx[d].gid]
                 /\ UNCHANGED last
    /\ UNCHANGED <<groups, claims, nextId, storage, screen, hpId, hpKey, ops>>
    /\ UNCHANGED tabVars

\* tx.set(hpRef, {name, nameKey: newKey}, {merge: true})
RenameGroups(grp, id, name, newKey) == [grp EXCEPT ![id] = Doc(name, newKey)]

\* saveRename without the write of the claim at the new key
RenameClaimsNoSet(cl, newKey, id, old, del) ==
    [k \in DOMAIN cl |-> IF del /\ k = old THEN NoId ELSE cl[k]]

\* tx.set(newKeyRef, {homePageId}, {merge: true}); tx.delete(oldKeyRef)
RenameClaims(cl, newKey, id, old, del) ==
    [k \in DOMAIN cl |-> IF k = newKey THEN id
                          ELSE IF del /\ k = old THEN NoId
                          ELSE cl[k]]

\* the commit of saveRename's transaction, or its re-run on a conflict
RenameCommit(d) ==
    /\ tx[d].op = "rename"
    /\ tx[d].pc = "commit"
    /\ IF tx[d].stale
       THEN /\ tx' = [tx EXCEPT ![d].pc = "get", ![d].stale = FALSE, ![d].del = FALSE]
            /\ UNCHANGED <<groups, claims, last>>
       ELSE /\ groups' = RenameGroups(groups, tx[d].gid, tx[d].name, tx[d].key)
            /\ claims' = RenameClaims(claims, tx[d].key, tx[d].gid, tx[d].old, tx[d].del)
            /\ tx' = Committed(d, {tx[d].key} \cup (IF tx[d].del THEN {tx[d].old} ELSE {}),
                               tx[d].key, tx[d].gid, Idle)
            /\ last' = [last EXCEPT ![d] = Outcome(tx[d], "OK", tx[d].gid)]
    /\ UNCHANGED <<nextId, storage, screen, hpId, hpKey, ops>>
    /\ UNCHANGED tabVars

\* ------------------------------------------------------------ tab navigator
\* The user opens another tab; the tabs already opened stay mounted.
OpenTab(d, tab) ==
    /\ screen[d] \in Tabs
    /\ tab \in Tabs \ {screen[d]}
    /\ hpId[d] # NoId
    /\ tx[d].pc = "idle"
    /\ ops < MaxOps
    /\ ops' = ops + 1
    /\ screen' = [screen EXCEPT ![d] = tab]
    /\ UNCHANGED <<groups, claims, nextId, storage, hpId, hpKey, tx, last>>
    /\ UNCHANGED tabVars

\* The same change of tab where only the handlers' calls bound the run.
GoToTab(d, tab) ==
    /\ screen[d] \in Tabs
    /\ tab \in Tabs \ {screen[d]}
    /\ hpId[d] # NoId
    /\ tx[d].pc = "idle"
    /\ screen' = [screen EXCEPT ![d] = tab]
    /\ UNCHANGED <<groups, claims, nextId, storage, hpId, hpKey, tx, last, ops>>
    /\ UNCHANGED tabVars

\* A handler of a tab that ends within one step with result r.
Done(d, op, name, r) ==
    /\ tx' = tx
    /\ last' = [last EXCEPT ![d] = Outcome([Idle EXCEPT !.op = op, !.name = name,
                                                         !.gid = hpId[d]], r, hpId[d])]

\* A handler of tab `tab` starts on d.
Handler(d, tab) ==
    /\ screen[d] = tab
    /\ hpId[d] # NoId
    /\ tx[d].pc = "idle"
    /\ ops < MaxOps
    /\ ops' = ops + 1

\* ------------------------------------------------------------- ShoppingTab
\* what the user may type into the item input
ItemTexts == { <<"A">>, <<"a", " ">>, <<"b">> }

ItemDoc(n) == [name |-> n, purchased |-> FALSE, exists |-> TRUE]

\* documents of a collection that exist
Live(list) == { i \in DOMAIN list : list[i].exists }

\* deleteDoc / batch.delete of the documents ids
DeleteDocs(list, ids) ==
    [i \in DOMAIN list |-> IF i \in ids THEN [list[i] EXCEPT !.exists = FALSE] ELSE list[i]]

\* addItem up to its duplicate query
addItem(d, text) ==
    /\ Handler(d, "shopping")
    /\ Trim(text) # <<>>
    /\ Len(items[hpId[d]]) < MaxDocs
    /\ tx' = [tx EXCEPT ![d] = [Idle EXCEPT !.pc = "get", !.op = "add", !.input = text,
                                            !.name = Trim(text), !.gid = hpId[d]]]
    /\ last' = [last EXCEPT ![d] = NoResult]
    /\ UNCHANGED <<groups, claims, nextId, storage, screen, hpId, hpKey>>
    /\ UNCHANGED tabVars

\* where("nameLower", "==", normalized), limit(1)
Dup(list, name) == { i \in Live(list) : LowerCase(list[i].name) = LowerCase(name) }

\* the answer of the duplicate query of addItem
AddGet(d) ==
    /\ tx[d].op = "add"
    /\ tx[d].pc = "get"
    /\ IF Dup(items[tx[d].gid], tx[d].name) # {}
       THEN Finish(d, "Duplicate", NoId)
       ELSE /\ tx' = [tx EXCEPT ![d].pc = "commit"]
            /\ UNCHANGED last
    /\ UNCHANGED <<groups, claims, nextId, storage, screen, hpId, hpKey, ops>>
    /\ UNCHANGED tabVars

\* the addDoc of addItem
AddCommit(d) ==
    /\ tx[d].op = "add"
    /\ tx[d].pc = "commit"
    /\ Len(items[tx[d].gid]) < MaxDocs
    /\ items' = [items EXCEPT ![tx[d].gid] = Append(@, ItemDoc(tx[d].name))]
    /\ Finish(d, "OK", tx[d].gid)
    /\ UNCHANGED <<groups, claims, nextId, storage, screen, hpId, hpKey, ops>>
    /\ UNCHANGED <<msgs, nick, view, gone>>

\* removeItem(id) of an item on the list shown
removeItem(d, id) ==
    /\ Handler(d, "shopping")
    /\ id \in Live(view[d].items)
    /\ items' = [items EXCEPT ![hpId[d]] = DeleteDocs(@, {id})]
    /\ Done(d, "remove", <<>>, "OK")
    /\ UNCHANGED <<groups, claims, nextId, storage, screen, hpId, hpKey>>
    /\ UNCHANGED <<msgs, nick, view, gone>>

\* togglePurchased(id, current) of an item on the list shown; updateDoc fails
\* for a document that is gone
togglePurchased(d, id) ==
    /\ Handler(d, "shopping")
    /\ id \in Live(view[d].items)
    /\ IF items[hpId[d]][id].exists
       THEN /\ items' = [items EXCEPT ![hpId[d]][id].purchased = ~view[d].items[id].purchased]
            /\ Done(d, "toggle", <<>>, "OK")
       ELSE /\ items' = items
            /\ Done(d, "toggle", <<>>, "UpdateFailed")
    /\ UNCHANGED <<groups, claims, nextId, storage, screen, hpId, hpKey>>
    /\ UNCHANGED <<msgs, nick, view, gone>>

\* clearPurchased up to its query
clearPurchased(d) ==
    /\ Handler(d, "shopping")
    /\ tx' = [tx EXCEPT ![d] = [Idle EXCEPT !.pc = "get", !.op = "clear", !.gid = hpId[d]]]
    /\ last' = [last EXCEPT ![d] = NoResult]
    /\ UNCHANGED <<groups, claims, nextId, storage, screen, hpId, hpKey>>
    /\ UNCHANGED tabVars

\* a query with no filter on purchased
PurchasedOrNot(list) == Live(list)

\* where("purchased", "==", true)
Purchased(list) == { i \in Live(list) : list[i].purchased }

\* the answer of the query of clearPurchased
ClearGet(d) ==
    /\ tx[d].op = "clear"
    /\ tx[d].pc = "get"
    /\ IF Purchased(items[tx[d].gid]) = {}
       THEN Finish(d, "NothingToClear", NoId)
       ELSE /\ tx' = [tx EXCEPT ![d].pc = "commit", ![d].docs = Purchased(items[tx[d].gid])]
            /\ UNCHANGED last
    /\ UNCHANGED <<groups, claims, nextId, storage, screen, hpId, hpKey, ops>>
    /\ UNCHANGED tabVars

\* the batch of deletes of clearPurchased (fewer than 450: one batch)
ClearCommit(d) ==
    /\ tx[d].op = "clear"
    /\ tx[d].pc = "commit"
    /\ items' = [items EXCEPT ![tx[d].gid] = DeleteDocs(@, tx[d].docs)]
    /\ Finish(d, "OK", tx[d].gid)
    /\ UNCHANGED <<groups, claims, nextId, storage, screen, hpId, hpKey, ops>>
    /\ UNCHANGED <<msgs, nick, view, gone>>

\* ------------------------------------------------------------- MessagesTab
\* what the user may type into the nickname and message inputs
NickTexts == { <<"N", " ">>, <<" ">> }
MsgTexts == { <<"h">>, <<" ", "y">> }

Anonymous == <<"A", "n", "o", "n", "y", "m", "o", "u", "s">>

clamp(s, max) == IF Len(s) > max THEN SubSeq(s, 1, max) ELSE s

saveNickname(d, text) ==
    /\ screen[d] = "messages"
    /\ tx[d].pc = "idle"
    /\ ops < MaxOps
    /\ ops' = ops + 1
    /\ LET trimmed == clamp(Trim(text), NickMax)
       IN  IF trimmed = <<>>
           THEN /\ nick' = nick
                /\ Done(d, "nick", trimmed, "NicknameRequired")
           ELSE /\ nick' = [nick EXCEPT ![d] = trimmed]
                /\ Done(d, "nick", trimmed, "OK")
    /\ UNCHANGED <<groups, claims, nextId, storage, screen, hpId, hpKey>>
    /\ UNCHANGED <<items, msgs, view, gone>>

\* sendMessage with `typed` in the nickname input
sendMessage(d, text, typed) ==
    /\ Handler(d, "messages")
    /\ Len(msgs[hpId[d]]) < MaxDocs
    /\ LET body == clamp(Trim(text), BodyMax)
           author == clamp(IF Trim(typed) = <<>> THEN Anonymous ELSE Trim(typed), NickMax)
       IN  /\ body # <<>>
           /\ msgs' = [msgs EXCEPT ![hpId[d]] =
                          Append(@, [text |-> body, author |-> author, exists |-> TRUE])]
           /\ Done(d, "send", body, "OK")
    /\ UNCHANGED <<groups, claims, nextId, storage, screen, hpId, hpKey>>
    /\ UNCHANGED <<items, nick, view, gone>>

\* deleteMessage(id) of a message on the list shown
deleteMessage(d, id) ==
    /\ Handler(d, "messages")
    /\ id \in Live(view[d].msgs)
    /\ msgs' = [msgs EXCEPT ![hpId[d]] = DeleteDocs(@, {id})]
    /\ Done(d, "unsend", <<>>, "OK")
    /\ UNCHANGED <<groups, claims, nextId, storage, screen, hpId, hpKey>>
    /\ UNCHANGED <<items, nick, view, gone>>

\* the lists of the HomePage d holds, as the store has them
Lists(d) == [items |-> items[hpId[d]], msgs |-> msgs[hpId[d]]]

\* refreshNow of the Shopping or the Messages tab: getDocs of its collection
refreshNow(d) ==
    /\ screen[d] \in {"shopping", "messages"}
    /\ hpId[d] # NoId
    /\ view' = [view EXCEPT ![d] = IF screen[d] = "shopping"
                                    THEN [@ EXCEPT !.items = Lists(d).items]
                                    ELSE [@ EXCEPT !.msgs = Lists(d).msgs]]
    /\ UNCHANGED <<groups, claims, nextId, storage, screen, hpId, hpKey, tx, last, ops>>
    /\ UNCHANGED <<items, msgs, nick, gone>>

\* onSnapshot of the shown tab's collection: its list follows the store
ListSnapshot(d) ==
    /\ screen[d] \in {"shopping", "messages"}
    /\ hpId[d] # NoId
    /\ view' = [view EXCEPT ![d] = IF screen[d] = "shopping"
                                    THEN [@ EXCEPT !.items = Lists(d).items]
                                    ELSE [@ EXCEPT !.msgs = Lists(d).msgs]]
    /\ view'[d] # view[d]
    /\ UNCHANGED <<groups, claims, nextId, storage, screen, hpId, hpKey, tx, last, ops>>
    /\ UNCHANGED <<items, msgs, nick, gone>>

\* -------------------------------------------------------------- environment
\* A HomePage document is deleted from outside the app.
ExternalDelete(g) ==
    /\ groups[g].exists
    /\ groups' = [groups EXCEPT ![g] = NoDoc]
    /\ UNCHANGED <<claims, nextId, storage, screen, hpId, hpKey, tx, last, ops>>
    /\ UNCHANGED tabVars

\* ------------------------------------------------------------ specification
Next ==
    \/ \E d \in Dev : IndexBoot(d)
    \/ \E d \in Dev, text \in Inputs : CreateStart(d, text)
    \/ \E d \in Dev : CreateGet(d)
    \/ \E d \in Dev : CreateCommit(d)
    \/ \E d \in Dev, text \in Inputs : JoinStart(d, text)
    \/ \E d \in Dev : JoinGet(d)
    \/ \E d \in Dev : BackendFails(d)
    \/ \E d \in Dev : Snapshot(d)
    \/ \E d \in Dev : Guard(d)
    \/ \E d \in Dev : switchHomePage(d)
    \/ \E d \in Dev, text \in Inputs : RenameStart(d, text)
    \/ \E d \in Dev : RenameGet(d)
    \/ \E d \in Dev : RenameCommit(d)
    \/ \E g \in Ids : ExternalDelete(g)

Spec == Init /\ [][Next]_vars

\* Only the Index screen's boot and createByName run.
NextCreate ==
    \/ \E d \in Dev : IndexBoot(d)
    \/ \E d \in Dev, text \in Inputs : CreateStart(d, text)
    \/ \E d \in Dev : CreateGet(d)
    \/ \E d \in Dev : CreateCommit(d)
    \/ \E d \in Dev : BackendFails(d)

SpecCreate == Init /\ [][NextCreate]_vars

\* The state after construction for the tabs: the HomePage of an earlier run has
\* an item on its shopping list, purchased or not.
InitTabs ==
    /\ groups = [g \in Ids |-> IF g = 1
                               THEN Doc(Trim(SeedName), toNameKey(Trim(SeedName)))
                               ELSE NoDoc]
    /\ claims = [k \in Keys |-> IF k = toNameKey(Trim(SeedName)) THEN 1 ELSE NoId]
    /\ nextId = 2
    /\ storage \in [Dev -> {NoId, 1}]
    /\ screen = [d \in Dev |-> "loading"]
    /\ hpId = [d \in Dev |-> NoId]
    /\ hpKey = [d \in Dev |-> NoKey]
    /\ tx = [d \in Dev |-> Idle]
    /\ last = [d \in Dev |-> NoResult]
    /\ ops = 0
    /\ \E bought \in BOOLEAN :
         items = [g \in Ids |-> IF g = 1
                                THEN <<[ItemDoc(SeedName) EXCEPT !.purchased = bought]>>
                                ELSE <<>>]
    /\ msgs = [g \in Ids |-> <<>>]
    /\ nick = [d \in Dev |-> <<>>]
    /\ view = [d \in Dev |-> NoView]
    /\ gone = [d \in Dev |-> FALSE]

\* Every operation but Create and Rename: the Index screen's boot and Join, the
\* guards, Switch and the handlers of the Shopping and Messages tabs.
NextTabs ==
    \/ \E d \in Dev : IndexBoot(d)
    \/ \E d \in Dev, text \in Inputs : JoinStart(d, text)
    \/ \E d \in Dev : JoinGet(d)
    \/ \E d \in Dev : BackendFails(d)
    \/ \E d \in Dev : Snapshot(d)
    \/ \E d \in Dev : Guard(d)
    \/ \E d \in Dev : switchHomePage(d)
    \/ \E d \in Dev, tab \in Tabs : OpenTab(d, tab)
    \/ \E d \in Dev, text \in ItemTexts : addItem(d, text)
    \/ \E d \in Dev : AddGet(d)
    \/ \E d \in Dev : AddCommit(d)
    \/ \E d \in Dev, id \in 1..MaxDocs : removeItem(d, id)
    \/ \E d \in Dev, id \in 1..MaxDocs : togglePurchased(d, id)
    \/ \E d \in Dev : clearPurchased(d)
    \/ \E d \in Dev : ClearGet(d)
    \/ \E d \in Dev : ClearCommit(d)
    \/ \E d \in Dev, text \in NickTexts : saveNickname(d, text)
    \/ \E d \in Dev, text \in MsgTexts :
           \E typed \in NickTexts \cup {nick[d]} : sendMessage(d, text, typed)
    \/ \E d \in Dev, id \in 1..MaxDocs : deleteMessage(d, id)
    \/ \E d \in Dev : refreshNow(d)
    \/ \E d \in Dev : ListSnapshot(d)
    \/ \E g \in Ids : ExternalDelete(g)

SpecTabs == InitTabs /\ [][NextTabs]_vars

\* Names long enough to reach the .slice(0, 40) of toNameKey.
Pad(n) == [i \in 1..n |-> "a"]

LongInputs ==
    { Pad(KeyMax - 1) \o <<" ", "b">>,
      Pad(KeyMax + 1),
      <<" ", " ", "A", "b", " ", "B", "a", "!", "!", " ">>,
      <<"-", "-", "-">>,
      <<"b">> }

LongKeys == { toNameKey(s) : s \in LongInputs \cup {SeedName} } \ {NoKey}

\* the rename TextInput takes no more than maxLength characters
RenameInputs(texts) == { t \in texts : Len(t) <= NameMax }

\* The state after construction, with a claim table that has room for the keys
\* of the long names.
InitLong ==
    /\ \E seeded \in BOOLEAN :
         /\ groups = [g \in Ids |-> IF seeded /\ g = 1
                                     THEN Doc(Trim(SeedName), toNameKey(Trim(SeedName)))
                                     ELSE NoDoc]
         /\ claims = [k \in LongKeys |-> IF seeded /\ k = toNameKey(Trim(SeedName))
                                          THEN 1 ELSE NoId]
         /\ nextId = IF seeded THEN 2 ELSE 1
         /\ storage \in [Dev -> IF seeded THEN {NoId, 1} ELSE {NoId}]
    /\ screen = [d \in Dev |-> "loading"]
    /\ hpId = [d \in Dev |-> NoId]
    /\ hpKey = [d \in Dev |-> NoKey]
    /\ tx = [d \in Dev |-> Idle]
    /\ last = [d \in Dev |-> NoResult]
    /\ ops = 0
    /\ TabInit

\* createByName, joinByName and saveRename called with the long names
NextLong ==
    \/ \E d \in Dev : IndexBoot(d)
    \/ \E d \in Dev, text \in LongInputs : CreateStart(d, text)
    \/ \E d \in Dev : CreateGet(d)
    \/ \E d \in Dev : CreateCommit(d)
    \/ \E d \in Dev, text \in LongInputs : JoinStart(d, text)
    \/ \E d \in Dev : JoinGet(d)
    \/ \E d \in Dev, text \in RenameInputs(LongInputs) : RenameStart(d, text)
    \/ \E d \in Dev : RenameGet(d)
    \/ \E d \in Dev : RenameCommit(d)

SpecLong == InitLong /\ [][NextLong]_vars

\* the reads and writes the update function of call t issues, in the order of
\* its statements, when the claim table is cl
TxOps(t, cl) ==
    IF t.op = "create"
    THEN IF CreateTaken(cl[t.key])
         THEN <<"get">>
         ELSE <<"get", "set", "set">>
    ELSE IF RenameTaken(cl[t.key], t.gid)
         THEN <<"get">>
         ELSE <<"get", "set", "set">>
              \o (IF ReadsOld(t.old, t.key) THEN <<"get">> ELSE <<>>)
              \o (IF ReadsOld(t.old, t.key) /\ ~TxGetRejected(TRUE) /\ cl[t.old] = t.gid
                  THEN <<"delete">> ELSE <<>>)

\* The screens that hold a HomePage id and the handlers of the Home tab, with
\* the store delivering every pending snapshot and the boot effect running to
\* its end.
NextLive ==
    \/ \E d \in Dev : IndexBoot(d)
    \/ \E d \in Dev : Snapshot(d)
    \/ \E d \in Dev : Guard(d)
    \/ \E d \in Dev : switchHomePage(d)
    \/ \E d \in Dev, tab \in Tabs : OpenTab(d, tab)
    \/ \E d \in Dev, text \in Inputs : RenameStart(d, text)
    \/ \E d \in Dev : RenameGet(d)
    \/ \E d \in Dev : RenameCommit(d)
    \/ \E d \in Dev : BackendFails(d)
    \/ \E g \in Ids : ExternalDelete(g)

SpecLive ==
    /\ Init
    /\ [][NextLive]_vars
    /\ \A d \in Dev : WF_vars(Snapshot(d)) /\ WF_vars(Guard(d)) /\ WF_vars(IndexBoot(d))

\* The state after construction for the shopping lists: earlier runs left two
\* HomePages, each with an empty list or one item, and each device holds one of
\* them.
OtherName == <<"b">>

InitShop ==
    /\ groups = [g \in Ids |-> IF g = 1 THEN Doc(Trim(SeedName), toNameKey(Trim(SeedName)))
                               ELSE IF g = 2 THEN Doc(Trim(OtherName), toNameKey(Trim(OtherName)))
                               ELSE NoDoc]
    /\ claims = [k \in Keys |-> IF k = toNameKey(Trim(SeedName)) THEN 1
                                ELSE IF k = toNameKey(Trim(OtherName)) THEN 2
                                ELSE NoId]
    /\ nextId = 3
    /\ storage \in [Dev -> {1, 2}]
    /\ screen = [d \in Dev |-> "loading"]
    /\ hpId = [d \in Dev |-> NoId]
    /\ hpKey = [d \in Dev |-> NoKey]
    /\ tx = [d \in Dev |-> Idle]
    /\ last = [d \in Dev |-> NoResult]
    /\ ops = 0
    /\ \E seeded, bought \in BOOLEAN :
         items = [g \in Ids |-> IF seeded /\ g \in {1, 2}
                                THEN <<[ItemDoc(SeedName) EXCEPT !.purchased = bought]>>
                                ELSE <<>>]
    /\ msgs = [g \in Ids |-> <<>>]
    /\ nick = [d \in Dev |-> <<>>]
    /\ view = [d \in Dev |-> NoView]
    /\ gone = [d \in Dev |-> FALSE]

\* The Shopping tab: its handlers on both devices, the list subscription and
\* the route into the tab.
NextShop ==
    \/ \E d \in Dev : IndexBoot(d)
    \/ \E d \in Dev : GoToTab(d, "shopping")
    \/ \E d \in Dev, text \in ItemTexts : addItem(d, text)
    \/ \E d \in Dev : AddGet(d)
    \/ \E d \in Dev : AddCommit(d)
    \/ \E d \in Dev, id \in 1..MaxDocs : removeItem(d, id)
    \/ \E d \in Dev, id \in 1..MaxDocs : togglePurchased(d, id)
    \/ \E d \in Dev : clearPurchased(d)
    \/ \E d \in Dev : ClearGet(d)
    \/ \E d \in Dev : ClearCommit(d)
    \/ \E d \in Dev : ListSnapshot(d)
    \/ \E d \in Dev : BackendFails(d)

SpecShop == InitShop /\ [][NextShop]_vars

\* Startup: the process restarts, the boot effect gets its answer or fails, and
\* between restarts the user joins, switches, opens tabs and saves a nickname.
\* A boot effect whose lookup is answered runs to its end.
NextBoot ==
    \/ \E d \in Dev : IndexBoot(d)
    \/ \E d \in Dev : BootFails(d)
    \/ \E d \in Dev : Restart(d)
    \/ \E d \in Dev, text \in Inputs : JoinStart(d, text)
    \/ \E d \in Dev : JoinGet(d)
    \/ \E d \in Dev : BackendFails(d)
    \/ \E d \in Dev : Snapshot(d)
    \/ \E d \in Dev : Guard(d)
    \/ \E d \in Dev : switchHomePage(d)
    \/ \E d \in Dev, tab \in Tabs : OpenTab(d, tab)
    \/ \E d \in Dev, text \in NickTexts : saveNickname(d, text)
    \/ \E g \in Ids : ExternalDelete(g)

SpecBoot ==
    /\ Init
    /\ [][NextBoot]_vars
    /\ \A d \in Dev : WF_vars(IndexBoot(d))

\* The guards beside Rename: devices boot into the seeded HomePage, open tabs
\* and rename it while it is deleted from outside; no device switches, so the
\* guards alone remove stored identifiers.
NextGuard ==
    \/ \E d \in Dev : IndexBoot(d)
    \/ \E d \in Dev, tab \in Tabs : OpenTab(d, tab)
    \/ \E d \in Dev, text \in Inputs : RenameStart(d, text)
    \/ \E d \in Dev : RenameGet(d)
    \/ \E d \in Dev : RenameCommit(d)
    \/ \E d \in Dev : BackendFails(d)
    \/ \E d \in Dev : Snapshot(d)
    \/ \E d \in Dev : Guard(d)
    \/ \E g \in Ids : ExternalDelete(g)

SpecGuard == Init /\ [][NextGuard]_vars

\* ------------------------------------------------------------------ claims
GroupsWithKey(k) == {g \in Ids : groups[g].exists /\ groups[g].nameKey = k}

Answered(d, op) == last[d].op = op /\ last[d].res \in {"OK", "NameTaken"}

\* d's update function ran in this step and the backend answered
Ran(d, op) ==
    /\ tx[d].op = op
    /\ tx[d].pc = "get"
    /\ tx'[d].pc # "get"
    /\ last'[d].res # "BackendUnavailable"

\* d's transaction went through its commit in this step
Commits(d, op) ==
    /\ tx[d].op = op
    /\ tx[d].pc = "commit"
    /\ tx'[d].pc = "idle"
    /\ last'[d].res # "BackendUnavailable"

\* C1: when Create calls for the same key run concurrently (SpecCreate: any
\* interleaving of their reads, commits and re-runs), as soon as one of them has
\* its answer exactly one Group record and one Claim exist for the key, so
\* exactly one Create succeeded for it; every other one ends with NameTaken, and
\* no Create that a concurrent Create beat to the key succeeds.
C1_ConcurrentCreate ==
    \A d \in Dev :
        Answered(d, "create") =>
            /\ Cardinality(GroupsWithKey(last[d].key)) = 1
            /\ claims[last[d].key] \in GroupsWithKey(last[d].key)
            /\ last[d].res = "OK" => ~last[d].rival /\ claims[last[d].key] = last[d].gid
            /\ last[d].rival => last[d].res = "NameTaken"

C1_Witness ==
    \E d, e \in Dev :
        /\ last[d].op = "create" /\ last[d].res = "OK"
        /\ last[e].op = "create" /\ last[e].res = "NameTaken" /\ last[e].rival
        /\ last[e].key = last[d].key

\* C2: every Claim k -> g whose Group g exists points to a Group whose stored
\* key is k (no stale claim).
C2_ClaimMatchesGroupKey ==
    \A k \in Keys :
        (claims[k] # NoId /\ groups[claims[k]].exists) => groups[claims[k]].nameKey = k

\* C3: every Claim references a Group record that exists.
C3_NoOrphanClaim ==
    \A k \in Keys : claims[k] # NoId => groups[claims[k]].exists

\* C4: every existing Group record has, in every state, a Claim at its stored
\* key that points to it.
C4_GroupKeyClaimed ==
    \A g \in Ids : groups[g].exists => Lookup(claims, groups[g].nameKey) = g

C4_Witness ==
    \E d \in Dev :
        /\ last[d].op = "rename" /\ last[d].res = "OK"
        /\ groups[last[d].gid].exists
        /\ groups[last[d].gid].nameKey = last[d].key
        /\ last[d].key # toNameKey(SeedName)
        /\ claims[last[d].key] = last[d].gid

\* C5: no two distinct existing Group records have the same stored key (the
\* Claim Table holds one claim per key).
C5_KeyUnique ==
    \A g, h \in Ids :
        (g # h /\ groups[g].exists /\ groups[h].exists) => groups[g].nameKey # groups[h].nameKey

C5_Witness ==
    \E g, h \in Ids :
        /\ g # h /\ groups[g].exists /\ groups[h].exists
        /\ \E d \in Dev : last[d].op = "create" /\ last[d].res = "NameTaken"

\* C6: a Rename of Group A to a name whose key is unclaimed and differs from
\* A's key succeeds: A's name and key get the new values, the Claim at the new
\* key points to A, the Claim at A's previous key is gone, so that
\* Join(new name) finds A and Join(old name) finds nothing.
C6_RenameToFreeKey ==
    [][\A d \in Dev :
        LET t == tx[d]
            free == /\ groups[t.gid].exists
                    /\ claims[t.key] = NoId
                    /\ groups[t.gid].nameKey # t.key
        IN  /\ (Ran(d, "rename") /\ free) => tx'[d].pc = "commit"
            /\ (Commits(d, "rename") /\ free) =>
                  /\ last'[d].res = "OK"
                  /\ groups'[t.gid] = Doc(Trim(t.input), toNameKey(t.input))
                  /\ Lookup(claims', toNameKey(t.input)) = t.gid
                  /\ Lookup(claims', groups[t.gid].nameKey) = NoId]_vars

\* C7: a Rename of Group A to a name whose key is claimed by another Group B
\* fails with NameTaken and writes nothing: every Group record and every Claim
\* is as before.
C7_RenameTaken ==
    [][\A d \in Dev :
        (Ran(d, "rename") /\ claims[tx[d].key] \notin {NoId, tx[d].gid}) =>
            /\ last'[d].res = "NameTaken"
            /\ groups' = groups
            /\ claims' = claims
            /\ storage' = storage]_vars

C7_Witness ==
    \E d \in Dev :
        /\ last[d].op = "rename" /\ last[d].res = "NameTaken"
        /\ claims[last[d].key] # NoId
        /\ groups[claims[last[d].key]].exists
        /\ storage[d] # NoId /\ storage[d] # claims[last[d].key]
        /\ groups[storage[d]].exists

\* C8: a Create whose key has a Claim fails with NameTaken and leaves the Group
\* Registry, the Claim Table and the Session as they were; a Create whose
\* transaction finds no Claim at its key and commits succeeds.
C8_CreateTaken ==
    [][\A d \in Dev :
        /\ (Ran(d, "create") /\ claims[tx[d].key] # NoId) =>
              /\ last'[d].res = "NameTaken"
              /\ groups' = groups
              /\ claims' = claims
              /\ storage' = storage
        /\ (Ran(d, "create") /\ claims[tx[d].key] = NoId) => tx'[d].pc = "commit"
        /\ Commits(d, "create") =>
              /\ claims[tx[d].key] = NoId
              /\ last'[d].res = "OK"]_vars

\* a Create refused for a name that differs in case or spacing from the name
\* of the Group that holds the key
C8_Witness ==
    \E d \in Dev :
        /\ last[d].op = "create" /\ last[d].res = "NameTaken"
        /\ claims[last[d].key] # NoId
        /\ groups[claims[last[d].key]].exists
        /\ groups[claims[last[d].key]].name # last[d].name

\* C9: the commit of a successful Create adds, in one step, one Group record
\* under an identifier no existing Group has, with the trimmed name and its
\* normalized key, and the one Claim key -> identifier; no other Group or Claim
\* changes, and the Session then holds the new identifier.
C9_CreateCommit ==
    [][\A d \in Dev :
        Commits(d, "create") =>
            LET id == last'[d].gid
                t == tx[d]
            IN  /\ id \in Ids
                /\ ~groups[id].exists
                /\ groups' = [groups EXCEPT ![id] = Doc(Trim(t.input), toNameKey(t.input))]
                /\ claims[toNameKey(t.input)] = NoId
                /\ claims' = [claims EXCEPT ![toNameKey(t.input)] = id]
                /\ storage' = [storage EXCEPT ![d] = id]]_vars

C9_Witness ==
    \E d \in Dev :
        /\ last[d].op = "create" /\ last[d].res = "OK"
        /\ groups[last[d].gid].exists
        /\ groups[last[d].gid].name = last[d].name
        /\ \E g \in Ids : g # last[d].gid /\ groups[g].exists
        /\ storage[d] = last[d].gid

\* C10 as stated: of the concurrent Create and Rename transactions that claim
\* one key at most one succeeds; each one that a concurrent transaction beat
\* to the key fails with NameTaken.
C10_AtMostOneSucceeds ==
    \A d \in Dev :
        (last[d].rival /\ last[d].res # "BackendUnavailable") => last[d].res = "NameTaken"

\* C10 amended: of the concurrent Create and Rename transactions that claim one
\* key, those that succeed all act for one Group (Renames of the same Group may
\* all succeed); each one that a concurrent transaction of another Group beat
\* to the key fails with NameTaken.
C10_OneGroupWins ==
    \A d \in Dev :
        /\ (last[d].lost /\ last[d].res # "BackendUnavailable") => last[d].res = "NameTaken"
        /\ (last[d].rival /\ last[d].res = "OK") =>
              /\ last[d].op = "rename"
              /\ claims[last[d].key] = last[d].gid

C10_Witness ==
    \E d, e \in Dev :
        /\ last[d].lost /\ last[d].res = "NameTaken" /\ last[d].op = "rename"
        /\ last[e].op = "create" /\ last[e].res = "OK" /\ last[e].key = last[d].key

\* C11: the lookup of a Join ends with NotFound exactly when no Claim exists at
\* the normalized name; otherwise it returns the identifier stored in the Claim
\* and the Session of the device holds it.  The step changes no Group and no
\* Claim, and its result is a function of the Claim Table and the name alone,
\* so repeating it with no write in between gives the same result.
C11_Join ==
    [][\A d \in Dev :
        Ran(d, "join") =>
            LET found == Lookup(claims, toNameKey(tx[d].input))
            IN  /\ last'[d].res = IF found = NoId THEN "NotFound" ELSE "OK"
                /\ last'[d].gid = found
                /\ storage'[d] = IF found = NoId THEN storage[d] ELSE found
                /\ groups' = groups
                /\ claims' = claims]_vars

\* a Join that found its Group after an earlier Join on the same device found
\* nothing or after a Switch, and one that found nothing
C11_Witness ==
    \E d, e \in Dev :
        /\ last[d].op = "join" /\ last[d].res = "OK" /\ storage[d] = last[d].gid
        /\ last[e].op = "join" /\ last[e].res = "NotFound" /\ claims[last[e].key] = NoId

\* C14: a Create, Join or Rename whose name normalizes to the empty key ends
\* with InvalidName in the step that starts it: a call goes in flight only with
\* a non-empty key, and a start that ends with InvalidName puts nothing in
\* flight and changes no Group, Claim or Session.
C14_InvalidName ==
    [][\A d \in Dev :
        (tx[d].pc = "idle" /\ ops' = ops + 1 /\ (tx'[d] # tx[d] \/ last'[d] # last[d])) =>
            \/ /\ tx'[d].pc = "get"
               /\ tx'[d].key # NoKey
               /\ tx'[d].key = toNameKey(tx'[d].input)
            \/ /\ tx' = tx
               /\ last'[d].res = "InvalidName"
               /\ last'[d].key = NoKey
               /\ groups' = groups
               /\ claims' = claims
               /\ storage' = storage]_vars

C14_Witness ==
    \E d, e \in Dev :
        /\ last[d].op = "rename" /\ last[d].res = "InvalidName"
        /\ last[e].op \in {"create", "join"} /\ last[e].res = "InvalidName"
\* C15: a commit of Rename removes a Claim only at the key the Rename started
\* from and only when that Claim points to the renaming Group, and it leaves
\* every Claim that points to a different Group as it was.
C15_RenameSparesOthers ==
    [][\A d \in Dev :
        Commits(d, "rename") =>
            \A k \in Keys :
                /\ (claims[k] # NoId /\ claims[k] # tx[d].gid) => claims'[k] = claims[k]
                /\ (claims[k] # NoId /\ claims'[k] = NoId) =>
                       k = tx[d].old /\ claims[k] = tx[d].gid]_vars

C15_Witness ==
    \E d \in Dev, k \in Keys :
        /\ last[d].op = "rename" /\ last[d].res = "OK"
        /\ claims[last[d].key] = last[d].gid
        /\ k # last[d].key
        /\ claims[k] \notin {NoId, last[d].gid}
\* C17: in every run of the update function of a Create or Rename transaction
\* no read is issued after a write: once a set or delete has been issued, no
\* get follows it.
C17_ReadsBeforeWrites ==
    [][\A d \in Dev :
        (Ran(d, "create") \/ Ran(d, "rename")) =>
            LET issued == TxOps(tx[d], claims)
            IN  \A i, j \in DOMAIN issued :
                    (i < j /\ issued[i] \in {"set", "delete"}) => issued[j] # "get"]_vars
\* C18: a Group record starts to exist only in the commit of a successful
\* Create that was given its identifier, and a step in which a Group record
\* stops existing is no step of a Create, Join, Rename, Switch or guard.
C18_OnlyCreateMakesGroups ==
    [][\A g \in Ids :
        /\ (~groups[g].exists /\ groups'[g].exists) =>
               \E d \in Dev : /\ Commits(d, "create")
                              /\ last'[d].res = "OK"
                              /\ last'[d].gid = g
        /\ (groups[g].exists /\ ~groups'[g].exists) =>
               UNCHANGED <<claims, nextId, storage, screen, hpId, hpKey, tx, last, ops>>]_vars
\* the key of the call d has in flight or answered last
KeyOf(d) == IF tx[d].pc # "idle" THEN tx[d].key ELSE last[d].key

\* C12: normalizing a key that toNameKey produced gives the same key:
\* toNameKey(toNameKey(s)) = toNameKey(s) for every name a call was given.
C12_Idempotent ==
    \A d \in Dev : toNameKey(KeyOf(d)) = KeyOf(d)

\* ^[a-z0-9]([a-z0-9-]{0,38}[a-z0-9])?$
WellFormed(k) ==
    /\ Len(k) \in 1..KeyMax
    /\ \A i \in 1..Len(k) : k[i] \in KeyChars
    /\ k[1] # "-"
    /\ k[Len(k)] # "-"

\* C13: the key toNameKey gives a call is empty, or it is at most 40
\* characters of [a-z0-9-] with no hyphen at its start or end; and the name
\* "  Ab Ba!! " gets the key "ab-ba".
C13_KeyShape ==
    /\ \A d \in Dev : KeyOf(d) = NoKey \/ WellFormed(KeyOf(d))
    /\ toNameKey(<<" ", " ", "A", "b", " ", "B", "a", "!", "!", " ">>)
           = <<"a", "b", "-", "b", "a">>

\* C19: every Group record has a display name that is trimmed, non-empty and
\* at most 40 characters long.
C19_NameShape ==
    \A g \in Ids :
        groups[g].exists =>
            /\ groups[g].name # <<>>
            /\ Trim(groups[g].name) = groups[g].name
            /\ Len(groups[g].name) <= NameMax
C20_Frame ==
    [][/\ claims' = claims
       /\ \A g \in Ids :
            /\ groups'[g].exists => groups[g].exists
            /\ (groups[g].exists /\ groups'[g].exists) => groups'[g] = groups[g]]_vars

C20_Witness ==
    \E d, e \in Dev :
        /\ last[d].op = "clear" /\ last[d].res = "OK"
        /\ last[e].op = "join" /\ last[e].res = "OK"
        /\ Live(items[last[d].gid]) = {}
        /\ groups[last[d].gid].exists
\* a call of d ended in this step with a failure
Fails(d) == last'[d] # last[d] /\ last'[d].res \notin {"OK", "none"}

\* C21: the stored group identifier of a device becomes an identifier only in
\* the step in which its Create or Join succeeds, and then it is the identifier
\* that call returned; it is removed only by Switch (on the Home screen), by a
\* guard on a tab that was notified of a missing Group record, or by the startup check of an
\* identifier whose Group record is missing; no step of a Rename and no step in
\* which a call fails changes it.
C21_SessionWrites ==
    [][\A d \in Dev :
        /\ (storage'[d] # storage[d] /\ storage'[d] # NoId) =>
               /\ tx[d].op \in {"create", "join"}
               /\ tx'[d].pc = "idle"
               /\ last'[d].res = "OK"
               /\ last'[d].gid = storage'[d]
        /\ (storage'[d] # storage[d] /\ storage'[d] = NoId) =>
               \/ screen[d] = "home" /\ screen'[d] = "loading"
               \/ screen[d] \in Tabs /\ gone[d] /\ screen'[d] = "loading"
               \/ screen[d] = "loading" /\ ~groups[storage[d]].exists /\ screen'[d] = "index"
        /\ (Fails(d) \/ (tx[d].op = "rename" /\ tx'[d] # tx[d])) => storage'[d] = storage[d]]_vars

C21_Witness ==
    \E d, e \in Dev :
        /\ last[d].op = "create" /\ last[d].res = "OK" /\ storage[d] = last[d].gid
        /\ last[e].op = "rename" /\ last[e].res = "NameTaken" /\ storage[e] \notin {NoId, storage[d]}
\* C22: a restart keeps the stored group identifier and nickname, and the boot
\* effect that then gets its answer acts on the stored identifier: an existing
\* Group routes to the Home screen with the Session unchanged, a missing one
\* has the identifier removed and the forms shown, no identifier shows the
\* forms.
C22_Startup ==
    [][\A d \in Dev :
        /\ (last'[d].op = "restart" /\ ops' = ops + 1 /\ screen'[d] = "loading") =>
               storage'[d] = storage[d] /\ nick'[d] = nick[d]
        /\ (screen[d] = "loading" /\ screen'[d] \notin {"loading", "hung"}) =>
               IF storage[d] # NoId /\ groups[storage[d]].exists
               THEN /\ screen'[d] = "home"
                    /\ hpId'[d] = storage[d]
                    /\ storage'[d] = storage[d]
               ELSE /\ screen'[d] = "index"
                    /\ storage'[d] = NoId]_vars

C22_Witness ==
    \E d, e \in Dev :
        /\ last[d].op = "restart" /\ screen[d] = "home" /\ hpId[d] = storage[d]
        /\ nick[d] # <<>>
        /\ e # d /\ screen[e] = "index" /\ storage[e] = NoId
        /\ nextId > 1 /\ \A g \in Ids : ~groups[g].exists
\* C26: the step in which a guard of the Home, Shopping or Messages tab removes
\* the stored group identifier of a device finds no Group record under that
\* identifier (where no device switches, a removal on a tab is the guard's).
C26_GuardOnlyWhenMissing ==
    [][\A d \in Dev :
        (/\ screen[d] \in Tabs
         /\ gone[d]
         /\ storage[d] # NoId
         /\ storage'[d] = NoId) => ~groups[storage[d]].exists]_vars

\* C27: a device that shows the Index screen's loading render eventually shows
\* the Home screen or the create/join forms.
C27_BootEnds ==
    \A d \in Dev :
        (screen[d] \in {"loading", "hung"}) ~> (screen[d] \in Tabs \cup {"index"})
\* C23: the step in which a Create, Join or Rename of a device fails records
\* the failure as the call's outcome, changes no Group record, no Claim and no
\* Session, keeps the device on its screen with the HomePage it held, and
\* leaves the device with no call in flight, so that the handler can run again.
C23_FailuresAreOutcomes ==
    [][\A d \in Dev :
        (Fails(d) /\ last'[d].op \in {"create", "join", "rename"}) =>
            /\ last'[d].res \in {"InvalidName", "NameTaken", "NotFound",
                                 "BackendUnavailable", "ReadAfterWrite"}
            /\ groups' = groups
            /\ claims' = claims
            /\ storage' = storage
            /\ screen'[d] = screen[d]
            /\ hpId'[d] = hpId[d]
            /\ tx'[d] = Idle]_vars

C23_Witness ==
    \E d, e \in Dev :
        /\ last[d].op = "rename" /\ last[d].res = "BackendUnavailable"
        /\ screen[d] = "home" /\ tx[d] = Idle
        /\ last[e].op = "create" /\ last[e].res = "NameTaken"
        /\ screen[e] = "index" /\ tx[e] = Idle
\* C24: when a Rename transaction commits, the previous key it worked with is
\* the key the Group record holds at that moment.
C24_PreviousKeyIsCurrent ==
    [][\A d \in Dev :
        (Commits(d, "rename") /\ last'[d].res = "OK") =>
            tx[d].old = groups[tx[d].gid].nameKey]_vars
\* C25: a Rename of Group A to a name whose key has a Claim that points to A
\* goes through: its update function ends without a failure, and its commit
\* gives A the name and the key and changes no Claim.
C25_RenameOwnKey ==
    [][\A d \in Dev :
        /\ (Ran(d, "rename") /\ claims[tx[d].key] = tx[d].gid) => tx'[d].pc = "commit"
        /\ (Commits(d, "rename") /\ claims[tx[d].key] = tx[d].gid) =>
               /\ last'[d].res = "OK"
               /\ groups'[tx[d].gid] = Doc(tx[d].name, tx[d].key)
               /\ claims' = claims]_vars
\* C28: the step in which a device leaves the Home screen of an existing Group
\* for the entry screen removes its stored group identifier and changes no
\* nickname, no Group record and no Claim; and the entry screen with no stored
\* identifier goes on to the create/join forms.
C28_Switch ==
    [][\A d \in Dev :
        /\ (screen[d] = "home" /\ groups[hpId[d]].exists /\ screen'[d] = "loading") =>
               /\ storage'[d] = NoId
               /\ nick' = nick
               /\ groups' = groups
               /\ claims' = claims
        /\ (screen[d] = "loading" /\ storage[d] = NoId /\ screen'[d] # "loading") =>
               screen'[d] = "index"]_vars

C28_Witness ==
    \E d \in Dev :
        /\ nick[d] # <<>>
        /\ storage[d] = NoId
        /\ screen[d] = "index"
        /\ \E g \in Ids : groups[g].exists /\ claims[groups[g].nameKey] = g
\* C29: in every reachable state no two shopping items of one HomePage have
\* the same lower-cased name.
C29_NoDuplicateItems ==
    \A g \in Ids :
        \A i, j \in Live(items[g]) :
            LowerCase(items[g][i].name) = LowerCase(items[g][j].name) => i = j
\* C30: a clearPurchased that finds no purchased item deletes nothing; one
\* whose batch commits while the purchased items of the list are those its
\* query found (no writer came between) deletes exactly them, changes no
\* unpurchased item and no item of another HomePage, and changes no Group
\* record and no Claim.
C30_ClearPurchased ==
    [][\A d \in Dev :
        LET g == tx[d].gid
            bought == { i \in DOMAIN items[g] : items[g][i].exists /\ items[g][i].purchased }
        IN  /\ (Ran(d, "clear") /\ bought = {}) =>
                   /\ last'[d].res = "NothingToClear"
                   /\ items' = items
            /\ (Commits(d, "clear") /\ tx[d].docs = bought) =>
                   /\ \A i \in DOMAIN items[g] :
                          items'[g][i] = IF i \in bought
                                         THEN [items[g][i] EXCEPT !.exists = FALSE]
                                         ELSE items[g][i]
                   /\ DOMAIN items'[g] = DOMAIN items[g]
                   /\ \A h \in Ids \ {g} : items'[h] = items[h]
                   /\ groups' = groups
                   /\ claims' = claims]_vars

C30_Witness ==
    \E d \in Dev :
        /\ last[d].op = "clear" /\ last[d].res = "OK"
        /\ \E i \in DOMAIN items[last[d].gid] :
               ~items[last[d].gid][i].exists /\ items[last[d].gid][i].purchased
        /\ \E i \in Live(items[last[d].gid]) : ~items[last[d].gid][i].purchased
        /\ \E h \in Ids \ {last[d].gid} : Purchased(items[h]) # {}
====
